---- MODULE Spec2Model ----
(***************************************************************************)
(* CCompoundSplineTrack (Gems/Maestro/Code/Source/Cinematics):             *)
(* a compound animation track made of up to MAX_SUBTRACKS scalar           *)
(* sub-tracks.  Times are integers counted in units of half the selection  *)
(* epsilon (0.0005), values and angles are integers.  Assertions are       *)
(* compiled out (release build).                                           *)
(***************************************************************************)
EXTENDS Integers, Sequences, FiniteSets, TLC

VARIABLES m_nDimensions, m_valueType, m_nParamType, m_subTracks, m_subTrackNames,
          str, op, steps, crashed

vars == <<m_nDimensions, m_valueType, m_nParamType, m_subTracks, m_subTrackNames,
          str, op, steps, crashed>>

\* ---------------------------------------------------------------- bounds
MaxTime == 2
MaxSteps == 3
MaxEditSteps == 4
MaxPrev == 380
MaxLoadKeys == 2
MaxQuatSteps == 2
MaxInfoSteps == 2

\* ------------------------------------------------------------- constants
MAX_SUBTRACKS == 4
\* timeEpsilon = 0.001f, in time units of 0.0005
timeEpsilon == 2
\* static char str[64] of GetKeyInfo
STR_SIZE == 64

Times == 0..MaxTime
ParamTypes == {"Position", "Rotation", "Scale", "Float"}
ValueTypes == {"Float", "Vector", "Vector4", "Quat", "RGB"}

Abs(x) == IF x < 0 THEN -x ELSE x

\* ------------------------------------------------- sub-track collaborator
\* A sub-track: its keys in ascending time order, and its default value.
\* alloc is FALSE for an empty slot (a null pointer).
NullTrack == [alloc |-> FALSE, keys |-> <<>>, def |-> 0]
NewTrack == [alloc |-> TRUE, keys |-> <<>>, def |-> 0]

SubGetNumKeys(tr) == Len(tr.keys)

\* local indices are 0-based as in the code
SubGetKeyTime(tr, k) == tr.keys[k + 1].time

SubIsKeySelected(tr, k) == tr.keys[k + 1].sel

SubSelectKey(tr, k, select) ==
    [tr EXCEPT !.keys[k + 1].sel = select]

RemoveAt(s, n) == [j \in 1..(Len(s) - 1) |-> IF j < n THEN s[j] ELSE s[j + 1]]

SubRemoveKey(tr, k) == [tr EXCEPT !.keys = RemoveAt(tr.keys, k + 1)]

\* insert key e keeping ascending time order, after the keys of equal time
RECURSIVE InsertSorted(_, _)
InsertSorted(s, e) ==
    IF s = <<>> THEN <<e>>
    ELSE IF e.time < Head(s).time THEN <<e>> \o s
    ELSE <<Head(s)>> \o InsertSorted(Tail(s), e)

\* the key moved keeps its value and flag; the sequence stays ordered by time
SubSetKeyTime(tr, k, time) ==
    [tr EXCEPT !.keys =
        InsertSorted(RemoveAt(tr.keys, k + 1), [tr.keys[k + 1] EXCEPT !.time = time])]

\* index (1-based) of the first key with exactly this time, 0 if none
FindKeyAt(keys, time) ==
    IF \E j \in 1..Len(keys) : keys[j].time = time
    THEN CHOOSE j \in 1..Len(keys) :
            /\ keys[j].time = time
            /\ \A h \in 1..(j - 1) : keys[h].time # time
    ELSE 0

\* value at a time: the key there if any, else interpolated linearly between
\* the neighbouring keys, constant before the first and after the last key,
\* the default value when the sub-track has no key
SubGetValue(tr, time) ==
    LET keys == tr.keys
        n == Len(keys)
        at == FindKeyAt(keys, time)
    IN  IF n = 0 THEN tr.def
        ELSE IF at # 0 THEN keys[at].value
        ELSE IF time < keys[1].time THEN keys[1].value
        ELSE IF time > keys[n].time THEN keys[n].value
        ELSE LET lo == CHOOSE j \in 1..(n - 1) :
                          keys[j].time < time /\ keys[j + 1].time > time
                 a == keys[lo]
                 b == keys[lo + 1]
             IN  a.value + ((b.value - a.value) * (time - a.time)) \div (b.time - a.time)

\* write-through: overwrite the key at this time or create one; a default
\* write only replaces the default value
SubSetValue(tr, time, value, bDefault) ==
    IF bDefault THEN [tr EXCEPT !.def = value]
    ELSE LET at == FindKeyAt(tr.keys, time)
         IN  IF at # 0 THEN [tr EXCEPT !.keys[at].value = value]
             ELSE [tr EXCEPT !.keys =
                      InsertSorted(tr.keys, [time |-> time, value |-> value, sel |-> FALSE])]

\* --------------------------------------------------------------- vectors
Vec3(x, y, z) == [j \in 0..2 |-> IF j = 0 THEN x ELSE IF j = 1 THEN y ELSE z]

\* ------------------------------------------------- quaternion collaborator
\* A rotation is kept as its 3x3 matrix; the angles are whole numbers of
\* quarter turns, in degrees, so that sines and cosines are -1, 0 or 1.
Cos(d) == LET q == (d \div 90) % 4 IN IF q = 0 THEN 1 ELSE IF q = 2 THEN -1 ELSE 0

Sin(d) == LET q == (d \div 90) % 4 IN IF q = 1 THEN 1 ELSE IF q = 3 THEN -1 ELSE 0

\* atan2 in degrees, of arguments in -1..1
Atan2(y, x) ==
    IF y > 0 THEN 90 ELSE IF y < 0 THEN -90 ELSE IF x < 0 THEN 180 ELSE 0

\* Quat::CreateRotationXYZ: the rotation Rz * Ry * Rx of the Euler angles
CreateRotationXYZ(a) ==
    LET sx == Sin(a[0])
        cx == Cos(a[0])
        sy == Sin(a[1])
        cy == Cos(a[1])
        sz == Sin(a[2])
        cz == Cos(a[2])
    IN  [m00 |-> cy * cz, m01 |-> sy * sx * cz - cx * sz, m02 |-> sy * cx * cz + sx * sz,
         m10 |-> cy * sz, m11 |-> sy * sx * sz + cx * cz, m12 |-> sy * cx * sz - sx * cz,
         m20 |-> -sy,     m21 |-> cy * sx,                m22 |-> cy * cx]

\* Ang3::GetAnglesXYZ, in degrees: y from -m20; x and z from the other
\* entries, with x = 0 when y is a quarter turn (gimbal lock)
GetAnglesXYZ(q) ==
    LET y == 90 * (-q.m20)
    IN  IF Abs(y) = 90
        THEN Vec3(0, y, Atan2(-q.m01, q.m11))
        ELSE Vec3(Atan2(q.m21, q.m22), y, Atan2(q.m10, q.m00))

QuatIdentity == CreateRotationXYZ(Vec3(0, 0, 0))

\* ------------------------------------------------------ transform collaborator
\* A transform p |-> R(p) * num / den + tr: R a rotation by quarter turns kept
\* as its 3x3 matrix, num/den a uniform scale, tr a translation.
RotZ(r) == CreateRotationXYZ(Vec3(0, 0, 90 * r))

\* matrix times vector
Rotate(q, v) ==
    Vec3(q.m00 * v[0] + q.m01 * v[1] + q.m02 * v[2],
         q.m10 * v[0] + q.m11 * v[1] + q.m12 * v[2],
         q.m20 * v[0] + q.m21 * v[1] + q.m22 * v[2])

\* the inverse of a rotation matrix
Transpose(q) ==
    [m00 |-> q.m00, m01 |-> q.m10, m02 |-> q.m20,
     m10 |-> q.m01, m11 |-> q.m11, m12 |-> q.m21,
     m20 |-> q.m02, m21 |-> q.m12, m22 |-> q.m22]

Identity == [rot |-> QuatIdentity, num |-> 1, den |-> 1, tr |-> Vec3(0, 0, 0)]

\* AZ::Transform operator*(Vector3): point transform
TransformPoint(tm, v) ==
    LET r == Rotate(tm.rot, v)
    IN  [j \in 0..2 |-> (r[j] * tm.num) \div tm.den + tm.tr[j]]

\* AZ::Transform::InvertFull
InvertFull(tm) ==
    LET t == Rotate(Transpose(tm.rot), tm.tr)
    IN  [rot |-> Transpose(tm.rot), num |-> tm.den, den |-> tm.num,
         tr |-> [j \in 0..2 |-> -((t[j] * tm.den) \div tm.num)]]

\* AZ::Transform::RetrieveScaleExact applied componentwise to a vector
ScaleVector(tm, v) == [j \in 0..2 |-> (v[j] * tm.num) \div tm.den]

\* AzFramework::ConvertTransformToEulerDegrees: the Euler angles of the
\* rotation part, each in (-180, 180]
ConvertTransformToEulerDegrees(tm) == GetAnglesXYZ(tm.rot)

\* ------------------------------------------------------------------- texts
\* a text is the sequence of its characters, the terminating 0 left out
Min(a, b) == IF a < b THEN a ELSE b

DigitChars == <<"0", "1", "2", "3", "4", "5", "6", "7", "8", "9">>

RECURSIVE Digits(_)
Digits(n) ==
    IF n < 10 THEN <<DigitChars[n + 1]>>
    ELSE Digits(n \div 10) \o <<DigitChars[(n % 10) + 1]>>

\* "%.2f" of a whole number
FormatFloat2(v) ==
    (IF v < 0 THEN <<"-">> ELSE <<>>) \o Digits(Abs(v)) \o <<".", "0", "0">>

\* append as much of src as the destination array has room for
cry_strcat(dst, src) == dst \o SubSeq(src, 1, Min(Len(src), STR_SIZE - 1 - Len(dst)))

\* the sub-track's description of one of its keys: the key's value
SubGetKeyInfo(tr, m) == [description |-> FormatFloat2(tr.keys[m + 1].value), duration |-> 0]

\* ------------------------------------------------------------ compound track
\* m_subTrackNames after the constructor with dimensions
ConstructedNames == [i \in 0..(MAX_SUBTRACKS - 1) |-> <<<<"X">>, <<"Y">>, <<"Z">>, <<"W">>>>[i + 1]]

SetSubTrackName(names, nIndex, name) == [names EXCEPT ![nIndex] = name]

\* the sub-track slots after CCompoundSplineTrack(nDims, ...)
Constructed(nDims) ==
    [i \in 0..(MAX_SUBTRACKS - 1) |-> IF i < nDims THEN NewTrack ELSE NullTrack]

RECURSIVE GetNumKeysLoop(_, _, _, _)
GetNumKeysLoop(st, nd, i, nKeys) ==
    IF i < nd THEN GetNumKeysLoop(st, nd, i + 1, nKeys + SubGetNumKeys(st[i]))
    ELSE nKeys

\* faulty variant: the loop starts at sub-track 1
GetNumKeys_SkipFirst(st, nd) == GetNumKeysLoop(st, nd, 1, 0)

GetNumKeys(st, nd) == GetNumKeysLoop(st, nd, 0, 0)

\* the sub-track index returned and the key index as left in the in/out argument
RECURSIVE GetSubTrackIndexLoop(_, _, _, _, _)
GetSubTrackIndexLoop(st, nd, key, i, count) ==
    IF i < nd
    THEN IF key < count + SubGetNumKeys(st[i])
         THEN [i |-> i, key |-> key - count]
         ELSE GetSubTrackIndexLoop(st, nd, key, i + 1, count + SubGetNumKeys(st[i]))
    ELSE [i |-> -1, key |-> key]

\* faulty variant: the running count is never advanced
RECURSIVE GetSubTrackIndexLoop_NoCount(_, _, _, _, _)
GetSubTrackIndexLoop_NoCount(st, nd, key, i, count) ==
    IF i < nd
    THEN IF key < count + SubGetNumKeys(st[i])
         THEN [i |-> i, key |-> key - count]
         ELSE GetSubTrackIndexLoop_NoCount(st, nd, key, i + 1, count)
    ELSE [i |-> -1, key |-> key]

GetSubTrackIndex_NoCount(st, nd, key) == GetSubTrackIndexLoop_NoCount(st, nd, key, 0, 0)

\* faulty variant: the running total may equal the flat index
RECURSIVE GetSubTrackIndexLoop_Inclusive(_, _, _, _, _)
GetSubTrackIndexLoop_Inclusive(st, nd, key, i, count) ==
    IF i < nd
    THEN IF key <= count + SubGetNumKeys(st[i])
         THEN [i |-> i, key |-> key - count]
         ELSE GetSubTrackIndexLoop_Inclusive(st, nd, key, i + 1, count + SubGetNumKeys(st[i]))
    ELSE [i |-> -1, key |-> key]

GetSubTrackIndex_Inclusive(st, nd, key) == GetSubTrackIndexLoop_Inclusive(st, nd, key, 0, 0)

\* faulty variant: an index past the last key is handed to the last sub-track
RECURSIVE GetSubTrackIndexLoop_LastOnFail(_, _, _, _, _)
GetSubTrackIndexLoop_LastOnFail(st, nd, key, i, count) ==
    IF i < nd
    THEN IF key < count + SubGetNumKeys(st[i])
         THEN [i |-> i, key |-> key - count]
         ELSE GetSubTrackIndexLoop_LastOnFail(st, nd, key, i + 1, count + SubGetNumKeys(st[i]))
    ELSE [i |-> nd - 1, key |-> key - count]

GetSubTrackIndex_LastOnFail(st, nd, key) == GetSubTrackIndexLoop_LastOnFail(st, nd, key, 0, 0)

GetSubTrackIndex(st, nd, key) == GetSubTrackIndexLoop(st, nd, key, 0, 0)

GetKeyTime(st, nd, index) ==
    LET r == GetSubTrackIndex(st, nd, index)
    IN  IF r.i < 0 THEN 0 ELSE SubGetKeyTime(st[r.i], r.key)

IsKeySelected(st, nd, key) ==
    LET r == GetSubTrackIndex(st, nd, key)
    IN  IF r.i < 0 THEN FALSE ELSE SubIsKeySelected(st[r.i], r.key)

\* faulty variant: the local index is removed from sub-track 0
RemoveKey_FirstSubTrack(st, nd, num) ==
    LET r == GetSubTrackIndex(st, nd, num)
    IN  IF r.i < 0 THEN st ELSE [st EXCEPT ![0] = SubRemoveKey(st[0], r.key)]

RemoveKey(st, nd, num) ==
    LET r == GetSubTrackIndex(st, nd, num)
    IN  IF r.i < 0 THEN st ELSE [st EXCEPT ![r.i] = SubRemoveKey(st[r.i], r.key)]

SetKeyTime(st, nd, index, time) ==
    LET r == GetSubTrackIndex(st, nd, index)
    IN  IF r.i < 0 THEN st ELSE [st EXCEPT ![r.i] = SubSetKeyTime(st[r.i], r.key, time)]

\* the inner loop of SelectKey over the keys of one sub-track
RECURSIVE SelectKeyLoop(_, _, _, _)
SelectKeyLoop(tr, m, keyTime, select) ==
    IF m < SubGetNumKeys(tr)
    THEN IF Abs(SubGetKeyTime(tr, m) - keyTime) < timeEpsilon
         THEN SubSelectKey(tr, m, select)
         ELSE SelectKeyLoop(tr, m + 1, keyTime, select)
    ELSE tr

SelectKey(st, nd, key, select) ==
    LET r == GetSubTrackIndex(st, nd, key)
    IN  IF r.i < 0 THEN st
        ELSE LET keyTime == SubGetKeyTime(st[r.i], r.key)
             IN  [k \in 0..(MAX_SUBTRACKS - 1) |->
                    IF k < nd THEN SelectKeyLoop(st[k], 0, keyTime, select) ELSE st[k]]

\* faulty variant: a key of the same time counts as later
RECURSIVE NextKeyScan_NotStrict(_, _, _)
NextKeyScan_NotStrict(tr, k, time) ==
    IF k < SubGetNumKeys(tr)
    THEN IF SubGetKeyTime(tr, k) >= time THEN k ELSE NextKeyScan_NotStrict(tr, k + 1, time)
    ELSE -1

\* one sub-track's scan in NextKeyByTime: local index of its first key later
\* than time, -1 if it has none
RECURSIVE NextKeyScan(_, _, _)
NextKeyScan(tr, k, time) ==
    IF k < SubGetNumKeys(tr)
    THEN IF SubGetKeyTime(tr, k) > time THEN k ELSE NextKeyScan(tr, k + 1, time)
    ELSE -1

\* faulty variant: a later sub-track with a key of the same time wins
RECURSIVE NextKeyByTimeLoop_LastWins(_, _, _, _, _, _, _)
NextKeyByTimeLoop_LastWins(st, nd, time, i, count, result, timeNext) ==
    IF i < nd
    THEN LET k == NextKeyScan(st[i], 0, time)
             t == IF k >= 0 THEN SubGetKeyTime(st[i], k) ELSE 0
             better == k >= 0 /\ (timeNext = -1 \/ t <= timeNext)
         IN  NextKeyByTimeLoop_LastWins(st, nd, time, i + 1, count + SubGetNumKeys(st[i]),
                                        IF better THEN count + k ELSE result,
                                        IF better THEN t ELSE timeNext)
    ELSE result

\* timeNext = -1 stands for FLT_MAX
RECURSIVE NextKeyByTimeLoop(_, _, _, _, _, _, _)
NextKeyByTimeLoop(st, nd, time, i, count, result, timeNext) ==
    IF i < nd
    THEN LET k == NextKeyScan(st[i], 0, time)
             t == IF k >= 0 THEN SubGetKeyTime(st[i], k) ELSE 0
             better == k >= 0 /\ (timeNext = -1 \/ t < timeNext)
         IN  NextKeyByTimeLoop(st, nd, time, i + 1, count + SubGetNumKeys(st[i]),
                               IF better THEN count + k ELSE result,
                               IF better THEN t ELSE timeNext)
    ELSE result

\* faulty variant: the scan starts from time 0 in place of the key's time
NextKeyByTime_NoKeyTime(st, nd, key) ==
    NextKeyByTimeLoop(st, nd, 0, 0, 0, -1, -1)

NextKeyByTime(st, nd, key) ==
    NextKeyByTimeLoop(st, nd, GetKeyTime(st, nd, key), 0, 0, -1, -1)

\* faulty variant: a key less than timeEpsilon away counts as a key of the time
RECURSIVE KeyInfoScan_Epsilon(_, _, _)
KeyInfoScan_Epsilon(tr, m, time) ==
    IF m < SubGetNumKeys(tr)
    THEN IF Abs(SubGetKeyTime(tr, m) - time) < timeEpsilon THEN m
         ELSE KeyInfoScan_Epsilon(tr, m + 1, time)
    ELSE m

\* the scan of one sub-track in GetKeyInfo: m after the loop, the number of
\* keys if no key has exactly this time
RECURSIVE KeyInfoScan(_, _, _)
KeyInfoScan(tr, m, time) ==
    IF m < SubGetNumKeys(tr)
    THEN IF SubGetKeyTime(tr, m) = time THEN m ELSE KeyInfoScan(tr, m + 1, time)
    ELSE m

\* the key's description or, with no key of the time, the sub-track's name
AppendPiece(s, tr, name, time) ==
    LET m == KeyInfoScan(tr, 0, time)
    IN  IF m = SubGetNumKeys(tr)
        THEN cry_strcat(s, name)
        ELSE cry_strcat(s, SubGetKeyInfo(tr, m).description)

\* the tail cases, sub-tracks 1..N-1
RECURSIVE GetKeyInfoTail(_, _, _, _, _, _)
GetKeyInfoTail(st, names, nd, time, i, s) ==
    IF i < nd
    THEN GetKeyInfoTail(st, names, nd, time, i + 1,
                        AppendPiece(cry_strcat(s, <<",">>), st[i], names[i], time))
    ELSE s

\* the head case reads sub-track 0 whatever the dimension count
GetKeyInfo(st, names, nd, key) ==
    LET time == GetKeyTime(st, nd, key)
    IN  [description |-> GetKeyInfoTail(st, names, nd, time, 1,
                                        AppendPiece(<<>>, st[0], names[0], time)),
         duration |-> 0]

\* SetValue(float time, const float& value, bool bDefault, ...)
SetValueFloat(st, nd, time, value, bDefault) ==
    [i \in 0..(MAX_SUBTRACKS - 1) |->
        IF i < nd THEN SubSetValue(st[i], time, value, bDefault) ELSE st[i]]

\* faulty variant: the key index is passed where the key time belongs
RECURSIVE OffsetKeyLoop_IndexAsTime(_, _, _, _)
OffsetKeyLoop_IndexAsTime(tr, k, num, off) ==
    IF k < num
    THEN LET time == SubGetKeyTime(tr, k)
             value == SubGetValue(tr, time) + off
         IN  OffsetKeyLoop_IndexAsTime(SubSetValue(tr, k, value, FALSE), k + 1, num, off)
    ELSE tr

\* the key loop of OffsetKeyPosition over one sub-track
RECURSIVE OffsetKeyLoop(_, _, _, _)
OffsetKeyLoop(tr, k, num, off) ==
    IF k < num
    THEN LET time == SubGetKeyTime(tr, k)
             value == SubGetValue(tr, time) + off
         IN  OffsetKeyLoop(SubSetValue(tr, time, value, FALSE), k + 1, num, off)
    ELSE tr

OffsetKeyPosition(st, nd, offset) ==
    IF nd = 3
    THEN [i \in 0..(MAX_SUBTRACKS - 1) |->
            IF i < 3 THEN OffsetKeyLoop(st[i], 0, SubGetNumKeys(st[i]), offset[i]) ELSE st[i]]
    ELSE st


\* the distinct key times of sub-tracks 0..2 in the order the code collects them
RECURSIVE CollectTimes(_, _, _, _)
CollectTimes(st, i, k, allTimes) ==
    IF i < 3
    THEN IF k < SubGetNumKeys(st[i])
         THEN LET time == SubGetKeyTime(st[i], k)
              IN  IF \E j \in 1..Len(allTimes) : allTimes[j] = time
                  THEN CollectTimes(st, i, k + 1, allTimes)
                  ELSE CollectTimes(st, i, k + 1, Append(allTimes, time))
         ELSE CollectTimes(st, i + 1, 0, allTimes)
    ELSE allTimes

\* the values of sub-tracks 0..2 at a time
GetVector(st, time) == [j \in 0..2 |-> SubGetValue(st[j], time)]

VecAdd(a, b) == [j \in 0..2 |-> a[j] + b[j]]

\* faulty variant: the key data is not taken to world space by the old parent first
RebaseVector_NoWorld(ptype, oldParentWorldTM, newParentInverseWorldTM, vector) ==
    IF ptype = "Position"
    THEN TransformPoint(newParentInverseWorldTM, vector)
    ELSE IF ptype = "Rotation"
    THEN VecAdd(ConvertTransformToEulerDegrees(newParentInverseWorldTM), vector)
    ELSE IF ptype = "Scale"
    THEN ScaleVector(newParentInverseWorldTM, vector)
    ELSE vector

\* faulty variant: a rebased rotation is folded back into (-180, 180]
RebaseVector_Folded(ptype, oldParentWorldTM, newParentInverseWorldTM, vector) ==
    IF ptype = "Position"
    THEN TransformPoint(newParentInverseWorldTM, TransformPoint(oldParentWorldTM, vector))
    ELSE IF ptype = "Rotation"
    THEN LET sum == VecAdd(ConvertTransformToEulerDegrees(newParentInverseWorldTM),
                           VecAdd(ConvertTransformToEulerDegrees(oldParentWorldTM), vector))
         IN  [j \in 0..2 |-> ((sum[j] + 179) % 360) - 179]
    ELSE IF ptype = "Scale"
    THEN ScaleVector(newParentInverseWorldTM, ScaleVector(oldParentWorldTM, vector))
    ELSE vector

\* the switch on m_nParamType.GetType()
RebaseVector(ptype, oldParentWorldTM, newParentInverseWorldTM, vector) ==
    IF ptype = "Position"
    THEN TransformPoint(newParentInverseWorldTM, TransformPoint(oldParentWorldTM, vector))
    ELSE IF ptype = "Rotation"
    THEN VecAdd(ConvertTransformToEulerDegrees(newParentInverseWorldTM),
                VecAdd(ConvertTransformToEulerDegrees(oldParentWorldTM), vector))
    ELSE IF ptype = "Scale"
    THEN ScaleVector(newParentInverseWorldTM, ScaleVector(oldParentWorldTM, vector))
    ELSE vector

\* faulty variant: the rebased vector is written back to sub-tracks 0 and 1 only
RebaseAtTime_TwoAxes(st, ptype, oldParentWorldTM, newParentInverseWorldTM, time) ==
    LET vector == RebaseVector(ptype, oldParentWorldTM, newParentInverseWorldTM,
                               GetVector(st, time))
    IN  [i \in 0..(MAX_SUBTRACKS - 1) |->
            IF i < 2 THEN SubSetValue(st[i], time, vector[i], FALSE) ELSE st[i]]

\* the body of the loop over allTimes
RebaseAtTime(st, ptype, oldParentWorldTM, newParentInverseWorldTM, time) ==
    LET vector == RebaseVector(ptype, oldParentWorldTM, newParentInverseWorldTM,
                               GetVector(st, time))
    IN  [i \in 0..(MAX_SUBTRACKS - 1) |->
            IF i < 3 THEN SubSetValue(st[i], time, vector[i], FALSE) ELSE st[i]]

RECURSIVE RebaseLoop(_, _, _, _, _)
RebaseLoop(st, ptype, oldParentWorldTM, newParentInverseWorldTM, allTimes) ==
    IF allTimes = <<>> THEN st
    ELSE RebaseLoop(RebaseAtTime(st, ptype, oldParentWorldTM, newParentInverseWorldTM,
                                 Head(allTimes)),
                    ptype, oldParentWorldTM, newParentInverseWorldTM, Tail(allTimes))

UpdateKeyDataAfterParentChanged(st, ptype, oldParentWorldTM, newParentWorldTM) ==
    RebaseLoop(st, ptype, oldParentWorldTM, InvertFull(newParentWorldTM),
               CollectTimes(st, 0, 0, <<>>))

\* fmod_tpl: the remainder has the sign of the dividend
fmod_tpl(x, y) == IF x >= 0 THEN x % y ELSE -((-x) % y)

\* faulty variant: the alternate wrap wins a tie
PreferShortestRotPath_AltOnTie(degree, degree0) ==
    LET degree00 == degree0
        d0 == fmod_tpl(degree0, 360)
        n == (degree00 - d0) \div 360
        degreeAlt == IF degree >= 0 THEN degree - 360 ELSE degree + 360
    IN  IF Abs(degreeAlt - d0) <= Abs(degree - d0)
        THEN degreeAlt + n * 360
        ELSE degree + n * 360

\* faulty variant: the alternate wrap is half a turn away
PreferShortestRotPath_HalfTurn(degree, degree0) ==
    LET degree00 == degree0
        d0 == fmod_tpl(degree0, 360)
        n == (degree00 - d0) \div 360
        degreeAlt == IF degree >= 0 THEN degree - 180 ELSE degree + 180
    IN  IF Abs(degreeAlt - d0) < Abs(degree - d0)
        THEN degreeAlt + n * 360
        ELSE degree + n * 360

\* faulty variant: the whole turns of the previous angle are dropped
PreferShortestRotPath_NoTurns(degree, degree0) ==
    LET d0 == fmod_tpl(degree0, 360)
        degreeAlt == IF degree >= 0 THEN degree - 360 ELSE degree + 360
    IN  IF Abs(degreeAlt - d0) < Abs(degree - d0)
        THEN degreeAlt
        ELSE degree

PreferShortestRotPath(degree, degree0) ==
    LET degree00 == degree0
        d0 == fmod_tpl(degree0, 360)
        n == (degree00 - d0) \div 360
        degreeAlt == IF degree >= 0 THEN degree - 360 ELSE degree + 360
    IN  IF Abs(degreeAlt - d0) < Abs(degree - d0)
        THEN degreeAlt + n * 360
        ELSE degree + n * 360

\* ------------------------------------------------ quaternion value access
\* faulty variant: the last axis is not read
GetValueQuat_TwoAxes(st, nd, time) ==
    IF nd = 3
    THEN CreateRotationXYZ(Vec3(SubGetValue(st[0], time), SubGetValue(st[1], time), 0))
    ELSE QuatIdentity

\* GetValue(float time, Quat& value)
GetValueQuat(st, nd, time) ==
    IF nd = 3
    THEN CreateRotationXYZ([i \in 0..2 |-> SubGetValue(st[i], time)])
    ELSE QuatIdentity

\* faulty variant: the reference angle of every axis is read from sub-track 0
SetValueQuat_RefFromFirst(st, nd, time, value, bDefault) ==
    IF nd = 3
    THEN LET angles == GetAnglesXYZ(value)
         IN  [i \in 0..(MAX_SUBTRACKS - 1) |->
                IF i < 3
                THEN LET degree == IF bDefault THEN angles[i]
                                   ELSE PreferShortestRotPath(angles[i],
                                                              SubGetValue(st[0], time))
                     IN  SubSetValue(st[i], time, degree, bDefault)
                ELSE st[i]]
    ELSE st

\* SetValue(float time, const Quat& value, bool bDefault)
SetValueQuat(st, nd, time, value, bDefault) ==
    IF nd = 3
    THEN LET angles == GetAnglesXYZ(value)
         IN  [i \in 0..(MAX_SUBTRACKS - 1) |->
                IF i < 3
                THEN LET degree == IF bDefault THEN angles[i]
                                   ELSE PreferShortestRotPath(angles[i],
                                                              SubGetValue(st[i], time))
                     IN  SubSetValue(st[i], time, degree, bDefault)
                ELSE st[i]]
    ELSE st

\* ------------------------------------------------------------------ inputs
SetVals == {2}
Offsets == {Vec3(2, 4, 6)}
Parents == {Identity, [rot |-> RotZ(1), num |-> 2, den |-> 1, tr |-> Vec3(4, 0, 8)]}

ValidKeys == 0..(GetNumKeys(m_subTracks, m_nDimensions) - 1)

\* ------------------------------------------------------------------ actions
Init ==
    /\ m_nDimensions \in 1..MAX_SUBTRACKS
    /\ m_valueType = "Float"
    /\ m_nParamType \in ParamTypes
    /\ m_subTracks = Constructed(m_nDimensions)
    /\ op = [name |-> "ctor"]
    /\ m_subTrackNames = ConstructedNames
    /\ str = <<>>
    /\ steps = 0
    /\ crashed = FALSE

\* one more call, of at most limit calls
Step(limit) == steps < limit /\ ~crashed /\ steps' = steps + 1

DoSetValue(limit) ==
    \E time \in Times, value \in SetVals, bDefault \in BOOLEAN :
        /\ Step(limit)
        /\ m_subTracks' = SetValueFloat(m_subTracks, m_nDimensions, time, value, bDefault)
        /\ op' = [name |-> "SetValue", time |-> time, value |-> value,
                  bDefault |-> bDefault, pre |-> m_subTracks]
        /\ UNCHANGED <<m_nDimensions, m_valueType, m_nParamType, m_subTrackNames, str, crashed>>

DoRemoveKey(limit) ==
    \E num \in ValidKeys :
        /\ Step(limit)
        /\ m_subTracks' = RemoveKey(m_subTracks, m_nDimensions, num)
        /\ op' = [name |-> "RemoveKey", key |-> num, pre |-> m_subTracks]
        /\ UNCHANGED <<m_nDimensions, m_valueType, m_nParamType, m_subTrackNames, str, crashed>>

DoSetKeyTime(limit) ==
    \E index \in ValidKeys, time \in Times :
        /\ Step(limit)
        /\ m_subTracks' = SetKeyTime(m_subTracks, m_nDimensions, index, time)
        /\ op' = [name |-> "SetKeyTime", key |-> index, time |-> time, pre |-> m_subTracks]
        /\ UNCHANGED <<m_nDimensions, m_valueType, m_nParamType, m_subTrackNames, str, crashed>>

DoSelectKey(limit) ==
    \E key \in ValidKeys, select \in BOOLEAN :
        /\ Step(limit)
        /\ m_subTracks' = SelectKey(m_subTracks, m_nDimensions, key, select)
        /\ op' = [name |-> "SelectKey", key |-> key, select |-> select, pre |-> m_subTracks]
        /\ UNCHANGED <<m_nDimensions, m_valueType, m_nParamType, m_subTrackNames, str, crashed>>

DoOffsetKeyPosition(limit) ==
    \E offset \in Offsets :
        /\ Step(limit)
        /\ m_subTracks' = OffsetKeyPosition(m_subTracks, m_nDimensions, offset)
        /\ op' = [name |-> "OffsetKeyPosition", offset |-> offset, pre |-> m_subTracks]
        /\ UNCHANGED <<m_nDimensions, m_valueType, m_nParamType, m_subTrackNames, str, crashed>>

\* with fewer than 3 dimensions the code dereferences an empty slot
DoParentChanged(limit) ==
    \E oldTM \in Parents, newTM \in Parents :
        /\ Step(limit)
        /\ IF m_nDimensions < 3
           THEN crashed' = TRUE /\ m_subTracks' = m_subTracks
           ELSE /\ crashed' = crashed
                /\ m_subTracks' = UpdateKeyDataAfterParentChanged(
                                      m_subTracks, m_nParamType, oldTM, newTM)
        /\ op' = [name |-> "ParentChanged", oldTM |-> oldTM, newTM |-> newTM,
                  pre |-> m_subTracks]
        /\ UNCHANGED <<m_nDimensions, m_valueType, m_nParamType, m_subTrackNames, str>>

Next ==
    \/ DoSetValue(MaxSteps)
    \/ DoRemoveKey(MaxSteps)
    \/ DoSetKeyTime(MaxSteps)
    \/ DoSelectKey(MaxSteps)
    \/ DoOffsetKeyPosition(MaxSteps)
    \/ DoParentChanged(MaxSteps)

Spec == Init /\ [][Next]_vars

\* ------------------------------------------- editing a 3-dimensional track
\* a Position track of 3 dimensions, keyed and then edited key by key
EditInit ==
    /\ m_nDimensions = 3
    /\ m_valueType = "Vector"
    /\ m_nParamType = "Position"
    /\ m_subTracks = Constructed(3)
    /\ op = [name |-> "ctor"]
    /\ m_subTrackNames = ConstructedNames
    /\ str = <<>>
    /\ steps = 0
    /\ crashed = FALSE

EditNext ==
    \/ DoSetValue(MaxEditSteps)
    \/ DoSetKeyTime(MaxEditSteps)
    \/ DoSelectKey(MaxEditSteps)
    \/ DoOffsetKeyPosition(MaxEditSteps)

SpecEdit == EditInit /\ [][EditNext]_vars


\* ---------------------------------------------- PreferShortestRotPath alone
\* the arguments are drawn first, then the function is applied to them
RotInit ==
    /\ m_nDimensions = 3
    /\ m_valueType = "Quat"
    /\ m_nParamType = "Rotation"
    /\ m_subTracks = Constructed(3)
    /\ op \in [name : {"args"}, degree : (-180)..180, degree0 : (-MaxPrev)..MaxPrev]
    /\ m_subTrackNames = ConstructedNames
    /\ str = <<>>
    /\ steps = 0
    /\ crashed = FALSE

CallPreferShortestRotPath ==
    /\ op.name = "args"
    /\ op' = [name |-> "PreferShortestRotPath", degree |-> op.degree,
              degree0 |-> op.degree0,
              result |-> PreferShortestRotPath(op.degree, op.degree0)]
    /\ UNCHANGED <<m_nDimensions, m_valueType, m_nParamType, m_subTrackNames, str, m_subTracks, steps, crashed>>

\* the same rotation is set again at the same time: degree0 is now the angle
\* the first write stored
CallPreferShortestRotPathAgain ==
    /\ op.name = "PreferShortestRotPath"
    /\ op' = [name |-> "Rewrite", degree |-> op.degree, degree0 |-> op.result,
              result |-> PreferShortestRotPath(op.degree, op.result)]
    /\ UNCHANGED <<m_nDimensions, m_valueType, m_nParamType, m_subTrackNames, str, m_subTracks, steps, crashed>>

RotNext == CallPreferShortestRotPath \/ CallPreferShortestRotPathAgain

SpecRot == RotInit /\ [][RotNext]_vars

\* ------------------------------------------------- parent rebase, there and back
\* a 3-dimensional track loaded with keys at distinct times, rebased from
\* parent A to parent B and then from B back to A
LoadVals == {0, 4}

\* the keys at the times T, in ascending time order, with values f[t]
RECURSIVE KeysOf(_, _)
KeysOf(f, T) ==
    IF T = {} THEN <<>>
    ELSE LET m == CHOOSE x \in T : \A y \in T : x <= y
         IN  <<[time |-> m, value |-> f[m], sel |-> FALSE]>> \o KeysOf(f, T \ {m})

\* a sub-track's keys: any set of up to MaxLoadKeys times, the values rising
\* by 4 per time unit from a base value
LoadedKeys ==
    UNION {{KeysOf([t \in T |-> v + 4 * t], T) : v \in LoadVals} :
              T \in {S \in SUBSET Times : Cardinality(S) <= MaxLoadKeys}}

RebaseParamTypes == {"Position", "Scale"}

RebaseInit ==
    /\ m_nDimensions = 3
    /\ m_valueType = "Vector"
    /\ m_nParamType \in RebaseParamTypes
    /\ \E k0 \in LoadedKeys, k1 \in LoadedKeys, k2 \in LoadedKeys :
          m_subTracks = [i \in 0..(MAX_SUBTRACKS - 1) |->
                            IF i = 0 THEN [NewTrack EXCEPT !.keys = k0]
                            ELSE IF i = 1 THEN [NewTrack EXCEPT !.keys = k1]
                            ELSE IF i = 2 THEN [NewTrack EXCEPT !.keys = k2]
                            ELSE NullTrack]
    /\ \E a \in Parents, b \in Parents :
          op = [name |-> "loaded", A |-> a, B |-> b, orig |-> m_subTracks,
                pre |-> m_subTracks]
    /\ m_subTrackNames = ConstructedNames
    /\ str = <<>>
    /\ steps = 0
    /\ crashed = FALSE

RebaseThere ==
    /\ op.name = "loaded"
    /\ m_subTracks' = UpdateKeyDataAfterParentChanged(m_subTracks, m_nParamType, op.A, op.B)
    /\ op' = [op EXCEPT !.name = "there", !.pre = m_subTracks]
    /\ steps' = steps + 1
    /\ UNCHANGED <<m_nDimensions, m_valueType, m_nParamType, m_subTrackNames, str, crashed>>

RebaseBack ==
    /\ op.name = "there"
    /\ m_subTracks' = UpdateKeyDataAfterParentChanged(m_subTracks, m_nParamType, op.B, op.A)
    /\ op' = [op EXCEPT !.name = "back", !.pre = m_subTracks]
    /\ steps' = steps + 1
    /\ UNCHANGED <<m_nDimensions, m_valueType, m_nParamType, m_subTrackNames, str, crashed>>

RebaseNext == RebaseThere \/ RebaseBack

SpecRebase == RebaseInit /\ [][RebaseNext]_vars

\* ------------------------------------------------ rebase of a Rotation track
\* a 3-dimensional Rotation track loaded with keys whose angles may lie
\* outside the principal range
RotLoadSlopes == {0, 350}

\* a sub-track's keys: the angles stay 0 or rise by 350 degrees per time unit
RotLoadedKeys ==
    UNION {{KeysOf([t \in T |-> v * t], T) : v \in RotLoadSlopes} :
              T \in {S \in SUBSET Times : Cardinality(S) <= MaxLoadKeys}}

\* the identity, and a parent turned by a quarter about X and then about Z
RotParents ==
    {Identity,
     [rot |-> CreateRotationXYZ(Vec3(90, 0, 90)), num |-> 2, den |-> 1, tr |-> Vec3(4, 0, 8)]}

RotRebaseInit ==
    /\ m_nDimensions = 3
    /\ m_valueType = "Vector"
    /\ m_nParamType = "Rotation"
    /\ \E k0 \in RotLoadedKeys, k1 \in RotLoadedKeys, k2 \in RotLoadedKeys :
          m_subTracks = [i \in 0..(MAX_SUBTRACKS - 1) |->
                            IF i = 0 THEN [NewTrack EXCEPT !.keys = k0]
                            ELSE IF i = 1 THEN [NewTrack EXCEPT !.keys = k1]
                            ELSE IF i = 2 THEN [NewTrack EXCEPT !.keys = k2]
                            ELSE NullTrack]
    /\ \E a \in RotParents, b \in RotParents :
          op = [name |-> "loaded", A |-> a, B |-> b, orig |-> m_subTracks,
                pre |-> m_subTracks]
    /\ m_subTrackNames = ConstructedNames
    /\ str = <<>>
    /\ steps = 0
    /\ crashed = FALSE

SpecRotRebase == RotRebaseInit /\ [][RebaseNext]_vars

\* ------------------------------------------------- quaternion set and get
\* the rotations by whole quarter turns about the axes
QuarterTurns == {0, 90, 180, 270}

Quats == {CreateRotationXYZ(Vec3(x, y, z)) : x \in QuarterTurns, y \in QuarterTurns, z \in QuarterTurns}

\* two key times: a value read at one of them is a key's value, the value of
\* the only other key, or the default
QuatTimes == {0, 1}

\* the constructor takes any value type with any dimension count
QuatInit ==
    /\ m_nDimensions \in 1..MAX_SUBTRACKS
    /\ m_valueType = "Quat"
    /\ m_nParamType = "Rotation"
    /\ m_subTracks = Constructed(m_nDimensions)
    /\ op = [name |-> "ctor"]
    /\ m_subTrackNames = ConstructedNames
    /\ str = <<>>
    /\ steps = 0
    /\ crashed = FALSE

DoSetValueQuat(limit) ==
    \E time \in QuatTimes, value \in Quats, bDefault \in BOOLEAN :
        /\ Step(limit)
        /\ m_subTracks' = SetValueQuat(m_subTracks, m_nDimensions, time, value, bDefault)
        /\ op' = [name |-> "SetValueQuat", time |-> time, value |-> value,
                  bDefault |-> bDefault, pre |-> m_subTracks]
        /\ UNCHANGED <<m_nDimensions, m_valueType, m_nParamType, m_subTrackNames, str, crashed>>

DoGetValueQuat(limit) ==
    \E time \in QuatTimes :
        /\ Step(limit)
        /\ op' = [name |-> "GetValueQuat", time |-> time,
                  value |-> GetValueQuat(m_subTracks, m_nDimensions, time),
                  pre |-> m_subTracks]
        /\ UNCHANGED <<m_nDimensions, m_valueType, m_nParamType, m_subTrackNames, str, m_subTracks, crashed>>

QuatNext == DoSetValueQuat(MaxQuatSteps) \/ DoGetValueQuat(MaxQuatSteps)

SpecQuat == QuatInit /\ [][QuatNext]_vars

\* ------------------------------------- flat-index calls with any index at all
\* the flat indices a caller may pass: the valid ones, -1, and the two next
\* above the valid range
AnyKeys == (-1)..(GetNumKeys(m_subTracks, m_nDimensions) + 1)

\* does the sub-track hold a key of this local index
SubHasKey(tr, k) == 0 <= k /\ k < SubGetNumKeys(tr)

\* what a sub-track call with a local index outside its key array may leave
\* behind: the track as it was, or the track with any one key of that
\* sub-track lost
WildOutcomes(st, i) ==
    {st} \cup {[st EXCEPT ![i] = SubRemoveKey(st[i], k)] : k \in 0..(SubGetNumKeys(st[i]) - 1)}

\* One flat-index call.  sub and local are what GetSubTrackIndex returned and
\* left in its argument; touched tells whether the call went on to read or
\* write a key of a sub-track; wild tells whether it did so with a local
\* index the sub-track does not hold, which is an access outside the key
\* array: the call may crash or not, and may damage the sub-track or not.
IndexedCall(limit, name, index, touched, after, result) ==
    LET r == GetSubTrackIndex(m_subTracks, m_nDimensions, index)
        wild == r.i >= 0 /\ ~SubHasKey(m_subTracks[r.i], r.key)
    IN  /\ Step(limit)
        /\ IF wild
           THEN /\ crashed' \in BOOLEAN
                /\ m_subTracks' \in WildOutcomes(m_subTracks, r.i)
                /\ op' = [name |-> name, key |-> index, sub |-> r.i, local |-> r.key,
                          touched |-> TRUE, wild |-> TRUE, pre |-> m_subTracks]
           ELSE /\ crashed' = crashed
                /\ m_subTracks' = after
                /\ op' = [name |-> name, key |-> index, sub |-> r.i, local |-> r.key,
                          touched |-> touched, wild |-> FALSE, result |-> result,
                          pre |-> m_subTracks]
        /\ UNCHANGED <<m_nDimensions, m_valueType, m_nParamType, m_subTrackNames, str>>

\* did GetSubTrackIndex find a sub-track for this flat index
Translated(index) == GetSubTrackIndex(m_subTracks, m_nDimensions, index).i >= 0

HasKeys(st, nd) == \E i \in 0..(nd - 1) : SubGetNumKeys(st[i]) > 0

CallGetKeyTime(limit) ==
    \E index \in AnyKeys :
        IndexedCall(limit, "GetKeyTime", index, Translated(index), m_subTracks,
                    GetKeyTime(m_subTracks, m_nDimensions, index))

CallSetKeyTime(limit) ==
    \E index \in AnyKeys, time \in Times :
        IndexedCall(limit, "SetKeyTime", index, Translated(index),
                    SetKeyTime(m_subTracks, m_nDimensions, index, time), time)

CallIsKeySelected(limit) ==
    \E index \in AnyKeys :
        IndexedCall(limit, "IsKeySelected", index, Translated(index), m_subTracks,
                    IsKeySelected(m_subTracks, m_nDimensions, index))

CallSelectKey(limit) ==
    \E index \in AnyKeys, select \in BOOLEAN :
        IndexedCall(limit, "SelectKey", index, Translated(index),
                    SelectKey(m_subTracks, m_nDimensions, index, select), select)

CallRemoveKey(limit) ==
    \E index \in AnyKeys :
        IndexedCall(limit, "RemoveKey", index, Translated(index),
                    RemoveKey(m_subTracks, m_nDimensions, index), 0)

\* after GetKeyTime the scan reads the first key time of every sub-track that
\* has keys, whatever GetKeyTime returned
CallNextKeyByTime(limit) ==
    \E index \in AnyKeys :
        IndexedCall(limit, "NextKeyByTime", index,
                    Translated(index) \/ HasKeys(m_subTracks, m_nDimensions), m_subTracks,
                    NextKeyByTime(m_subTracks, m_nDimensions, index))

IndexInit ==
    /\ m_nDimensions \in 1..MAX_SUBTRACKS
    /\ m_valueType = "Float"
    /\ m_nParamType = "Float"
    /\ m_subTracks = Constructed(m_nDimensions)
    /\ op = [name |-> "ctor"]
    /\ m_subTrackNames = ConstructedNames
    /\ str = <<>>
    /\ steps = 0
    /\ crashed = FALSE

IndexNext ==
    \/ DoSetValue(MaxSteps)
    \/ CallGetKeyTime(MaxSteps)
    \/ CallSetKeyTime(MaxSteps)
    \/ CallIsKeySelected(MaxSteps)
    \/ CallSelectKey(MaxSteps)
    \/ CallRemoveKey(MaxSteps)
    \/ CallNextKeyByTime(MaxSteps)

SpecIndex == IndexInit /\ [][IndexNext]_vars

\* ----------------------------------------------------- key descriptions
\* a track as loaded, of 0 (default-constructed) to 2 dimensions; a sub-track
\* may hold keys of one time, as SetKeyTime leaves them; the value of a key
\* is its position
InfoKeys ==
    UNION {{k \in [1..n -> [time : Times, value : 1..n, sel : {FALSE}]] :
               /\ \A j \in 1..n : k[j].value = j
               /\ \A j \in 1..(n - 1) : k[j].time <= k[j + 1].time} : n \in 0..MaxLoadKeys}

\* a name of as many characters as str holds
LongName == [j \in 1..STR_SIZE |-> "n"]
NameInputs == {<<"U">>, LongName}

InfoInit ==
    /\ m_nDimensions \in 0..2
    /\ m_valueType = "Float"
    /\ m_nParamType = "Float"
    /\ \E k0 \in InfoKeys, k1 \in InfoKeys :
          m_subTracks = [i \in 0..(MAX_SUBTRACKS - 1) |->
                            IF i >= m_nDimensions THEN NullTrack
                            ELSE [NewTrack EXCEPT !.keys = IF i = 0 THEN k0 ELSE k1]]
    /\ m_subTrackNames = IF m_nDimensions = 0
                         THEN [i \in 0..(MAX_SUBTRACKS - 1) |-> <<>>]
                         ELSE ConstructedNames
    /\ str = <<>>
    /\ op = [name |-> "loaded"]
    /\ steps = 0
    /\ crashed = FALSE

DoSetSubTrackName(limit) ==
    \E nIndex \in 0..(m_nDimensions - 1), name \in NameInputs :
        /\ Step(limit)
        /\ m_subTrackNames' = SetSubTrackName(m_subTrackNames, nIndex, name)
        /\ op' = [name |-> "SetSubTrackName", sub |-> nIndex]
        /\ UNCHANGED <<m_nDimensions, m_valueType, m_nParamType, m_subTracks, str, crashed>>

\* description points at str: op.description is the text the caller finds
\* there on return, op.earlier the text the caller of the call before found
DoGetKeyInfo(limit) ==
    \E key \in ValidKeys \cup {0} :
        /\ Step(limit)
        /\ IF ~m_subTracks[0].alloc
           THEN /\ crashed' = TRUE
                /\ str' = str
                /\ op' = [name |-> "GetKeyInfo", key |-> key, returned |-> FALSE]
           ELSE LET r == GetKeyInfo(m_subTracks, m_subTrackNames, m_nDimensions, key)
                IN  /\ crashed' = crashed
                    /\ str' = r.description
                    /\ op' = [name |-> "GetKeyInfo", key |-> key, returned |-> TRUE,
                              description |-> r.description, duration |-> r.duration,
                              again |-> op.name = "GetKeyInfo",
                              earlier |-> IF op.name = "GetKeyInfo"
                                          THEN op.description ELSE <<>>]
        /\ UNCHANGED <<m_nDimensions, m_valueType, m_nParamType, m_subTracks,
                       m_subTrackNames>>

InfoNext ==
    \/ DoSetSubTrackName(MaxInfoSteps)
    \/ DoGetKeyInfo(MaxInfoSteps)
    \/ DoParentChanged(MaxInfoSteps)

SpecInfo == InfoInit /\ [][InfoNext]_vars

\* =================================================================== claims
\* helpers of the formulas, stated without the track's own index arithmetic
Active == 0..(m_nDimensions - 1)

KeyCount(st, i) == Len(st[i].keys)

\* every key of the active sub-tracks as (sub-track, 1-based position)
KeySlots(st) == UNION {{<<i, m>> : m \in 1..KeyCount(st, i)} : i \in Active}

RECURSIVE CountBefore(_, _)
CountBefore(st, s) == IF s <= 0 THEN 0 ELSE KeyCount(st, s - 1) + CountBefore(st, s - 1)

\* flat index of a key slot
FlatOf(st, slot) == CountBefore(st, slot[1]) + slot[2] - 1

SlotOfFlat(st, f) == CHOOSE slot \in KeySlots(st) : FlatOf(st, slot) = f

TimeOfSlot(st, slot) == st[slot[1]].keys[slot[2]].time

Ascending(st) ==
    \A i \in Active : \A m \in 1..(KeyCount(st, i) - 1) :
        st[i].keys[m].time <= st[i].keys[m + 1].time

\* C1: GetNumKeys() equals the sum of the key counts of sub-tracks 0..N-1,
\* after any sequence of operations
C1_NumKeysIsSum ==
    GetNumKeys(m_subTracks, m_nDimensions) = Cardinality(KeySlots(m_subTracks))

C1_Witness ==
    /\ op.name \in {"RemoveKey", "ParentChanged", "OffsetKeyPosition"}
    /\ m_nDimensions >= 3
    /\ KeyCount(m_subTracks, 0) # KeyCount(m_subTracks, 1)
    /\ KeyCount(m_subTracks, 2) > 0

\* C2: GetSubTrackIndex maps every valid flat index f to (s, l) with
\* l + (key counts of sub-tracks 0..s-1) = f
C2_IndexRoundTrip ==
    \A f \in ValidKeys :
        LET r == GetSubTrackIndex(m_subTracks, m_nDimensions, f)
        IN  /\ r.i \in Active
            /\ r.key + CountBefore(m_subTracks, r.i) = f

C2_Witness ==
    /\ m_nDimensions >= 3
    /\ KeyCount(m_subTracks, 0) # KeyCount(m_subTracks, 1)
    /\ \E f \in ValidKeys :
          LET r == GetSubTrackIndex(m_subTracks, m_nDimensions, f)
          IN  r.i >= 2 /\ r.key >= 1 /\ f > r.key

\* C3: SelectKey on a key of time T applies select to exactly the keys within
\* timeEpsilon of T in every active sub-track and changes no other flag
C3_SelectsAllNear ==
    op.name = "SelectKey" =>
        LET T == TimeOfSlot(op.pre, SlotOfFlat(op.pre, op.key))
        IN  \A slot \in KeySlots(op.pre) :
                m_subTracks[slot[1]].keys[slot[2]].sel =
                    IF Abs(TimeOfSlot(op.pre, slot) - T) < timeEpsilon
                    THEN op.select
                    ELSE op.pre[slot[1]].keys[slot[2]].sel

\* C4: on sub-tracks in ascending time order NextKeyByTime(f) is a key of the
\* smallest time later than key f's, and -1 exactly when there is none
C4_NextKeyIsEarliestLater ==
    Ascending(m_subTracks) =>
        \A f \in ValidKeys :
            LET T == TimeOfSlot(m_subTracks, SlotOfFlat(m_subTracks, f))
                later == {slot \in KeySlots(m_subTracks) : TimeOfSlot(m_subTracks, slot) > T}
                r == NextKeyByTime(m_subTracks, m_nDimensions, f)
            IN  IF later = {} THEN r = -1
                ELSE /\ r \in ValidKeys
                     /\ SlotOfFlat(m_subTracks, r) \in later
                     /\ \A slot \in later :
                           TimeOfSlot(m_subTracks, SlotOfFlat(m_subTracks, r))
                               <= TimeOfSlot(m_subTracks, slot)

\* sub-track 0 continues later than sub-track 1 does: the answer for key 0 lies
\* in sub-track 1
C4_Witness ==
    /\ m_nDimensions >= 2
    /\ KeyCount(m_subTracks, 0) = 2
    /\ KeyCount(m_subTracks, 1) >= 1
    /\ m_subTracks[0].keys[1].time < m_subTracks[1].keys[1].time
    /\ m_subTracks[1].keys[1].time < m_subTracks[0].keys[2].time
    /\ NextKeyByTime(m_subTracks, m_nDimensions, 0) = 2

\* C5: OffsetKeyPosition(v) on a 3-dimensional track adds v[i] to the value of
\* every key of sub-track i, each key once
C5_OffsetsEveryKeyOnce ==
    (op.name = "OffsetKeyPosition" /\ m_nDimensions = 3) =>
        \A i \in 0..2 :
            /\ KeyCount(m_subTracks, i) = KeyCount(op.pre, i)
            /\ \A m \in 1..KeyCount(op.pre, i) :
                  m_subTracks[i].keys[m].value = op.pre[i].keys[m].value + op.offset[i]

\* C6: OffsetKeyPosition(v) on a 3-dimensional track creates and removes no
\* key and keeps every key's time and selected flag
C6_OffsetKeepsKeys ==
    (op.name = "OffsetKeyPosition" /\ m_nDimensions = 3) =>
        /\ GetNumKeys(m_subTracks, m_nDimensions) = GetNumKeys(op.pre, m_nDimensions)
        /\ \A i \in 0..2 :
              /\ KeyCount(m_subTracks, i) = KeyCount(op.pre, i)
              /\ \A m \in 1..KeyCount(op.pre, i) :
                    /\ m_subTracks[i].keys[m].time = op.pre[i].keys[m].time
                    /\ m_subTracks[i].keys[m].sel = op.pre[i].keys[m].sel

C6_Witness ==
    /\ op.name = "OffsetKeyPosition"
    /\ m_nDimensions = 3
    /\ KeyCount(op.pre, 0) = 2
    /\ \E m \in 1..2 : op.pre[0].keys[m].sel
    /\ \E m \in 1..2 : ~op.pre[0].keys[m].sel


\* C7: the angle returned by PreferShortestRotPath is, among the angles equal
\* to the target modulo 360, one closest to the previous angle
C7_ClosestEquivalent ==
    op.name = "PreferShortestRotPath" =>
        /\ (op.result - op.degree) % 360 = 0
        /\ \A m \in (-3)..3 :
              Abs(op.result - op.degree0) <= Abs(op.degree + 360 * m - op.degree0)

\* C8: the result is chosen + turns * 360, with principal the remainder of
\* previous by 360 carrying the sign of previous, alt the other wrap of the
\* target, chosen the one of target and alt nearer to principal (target on a
\* tie); previous 370 and target -10 give 350
C8_ChosenPlusTurns ==
    op.name = "PreferShortestRotPath" =>
        LET target == op.degree
            previous == op.degree0
            principal == CHOOSE p \in (-359)..359 :
                            /\ (previous - p) % 360 = 0
                            /\ p = 0 \/ (p > 0) = (previous > 0)
            turns == CHOOSE n \in (-3)..3 : n * 360 = previous - principal
            alt == IF target >= 0 THEN target - 360 ELSE target + 360
            chosen == IF Abs(target - principal) <= Abs(alt - principal)
                      THEN target ELSE alt
        IN  /\ op.result = chosen + turns * 360
            /\ (previous = 370 /\ target = -10) => op.result = 350

C8_Witness ==
    /\ op.name = "PreferShortestRotPath"
    /\ op.degree0 = 370
    /\ op.degree = -10
    /\ op.result = 350

\* the key times of sub-tracks 0..2
KeyTimes(st) == UNION {{st[i].keys[m].time : m \in 1..Len(st[i].keys)} : i \in 0..2}

\* C9: after a Position rebase the triple stored at every collected key time
\* is inverse(newParent) * oldParent * (the triple evaluated there before)
C9_RebasePreservesWorld ==
    (op.name = "there" /\ m_nParamType = "Position") =>
        \A t \in KeyTimes(op.pre) :
            GetVector(m_subTracks, t) =
                TransformPoint(InvertFull(op.B), TransformPoint(op.A, GetVector(op.pre, t)))

C11_IdentityRebaseKeepsRotation ==
    (op.name = "there" /\ m_nParamType = "Rotation" /\ m_nDimensions = 3
        /\ op.A = Identity /\ op.B = Identity) =>
        \A i \in 0..2 :
            \A m \in 1..Len(op.pre[i].keys) :
                \E j \in 1..Len(m_subTracks[i].keys) :
                    /\ m_subTracks[i].keys[j].time = op.pre[i].keys[m].time
                    /\ m_subTracks[i].keys[j].value = op.pre[i].keys[m].value

\* the keys (0,0,0) at time 0 and (0,0,350) at time 1
C11_Witness ==
    /\ op.name = "there"
    /\ m_nParamType = "Rotation"
    /\ op.A = Identity /\ op.B = Identity
    /\ \A i \in 0..2 : Len(op.pre[i].keys) = 2
    /\ GetVector(op.pre, 0) = Vec3(0, 0, 0)
    /\ \A i \in 0..2 : op.pre[i].keys[2].time = 1
    /\ GetVector(op.pre, 1) = Vec3(0, 0, 350)
    /\ GetVector(m_subTracks, 1) = Vec3(0, 0, 350)
\* C12: a parent rebase on a track whose parameter type is not Position,
\* Rotation or Scale, or whose dimension count is not 3, leaves every
\* sub-track as it was: no key created, removed, moved or given another value
C12_RebaseLeavesOthersAlone ==
    (op.name = "ParentChanged"
        /\ (m_nParamType \notin {"Position", "Rotation", "Scale"} \/ m_nDimensions # 3)) =>
        m_subTracks = op.pre
\* C14: SetValue with a float on a track of two or more dimensions writes
\* sub-track 0 only and leaves sub-tracks 1..N-1 as they were
C14_FloatWritesFirstOnly ==
    (op.name = "SetValue" /\ m_nDimensions >= 2) =>
        \A i \in 1..(m_nDimensions - 1) : m_subTracks[i] = op.pre[i]
IndexedCalls ==
    {"GetKeyTime", "SetKeyTime", "IsKeySelected", "SelectKey", "RemoveKey", "NextKeyByTime"}

\* C13: a flat-index operation called with an index outside [0, GetNumKeys()),
\* a negative one included, finds the translation failed and reads or writes
\* no key of any sub-track
C13_BadIndexTouchesNoKey ==
    (op.name \in IndexedCalls /\ "sub" \in DOMAIN op
        /\ op.key \notin 0..(GetNumKeys(op.pre, m_nDimensions) - 1)) =>
        /\ op.sub = -1
        /\ ~op.touched
        /\ m_subTracks = op.pre
        /\ ~crashed
\* the (sub-track, local index) pair a is at most the pair b, sub-track first
PairLeq(a, b) == a.i < b.i \/ (a.i = b.i /\ a.key <= b.key)

\* C17: GetSubTrackIndex maps every valid flat index to a non-empty active
\* sub-track s and a local index in [0, keyCount(s)), so that empty sub-tracks
\* are skipped, and a larger flat index never maps to a smaller pair
C17_IndexInRangeAndMonotone ==
    /\ \A f \in ValidKeys :
          LET r == GetSubTrackIndex(m_subTracks, m_nDimensions, f)
          IN  /\ r.i \in Active
              /\ KeyCount(m_subTracks, r.i) > 0
              /\ 0 <= r.key /\ r.key < KeyCount(m_subTracks, r.i)
    /\ \A f \in ValidKeys : \A g \in ValidKeys :
          f < g => PairLeq(GetSubTrackIndex(m_subTracks, m_nDimensions, f),
                           GetSubTrackIndex(m_subTracks, m_nDimensions, g))

\* an empty sub-track lies between two sub-tracks with keys and is skipped
C17_Witness ==
    /\ m_nDimensions >= 3
    /\ KeyCount(m_subTracks, 0) > 0
    /\ KeyCount(m_subTracks, 1) = 0
    /\ KeyCount(m_subTracks, 2) > 0
    /\ GetSubTrackIndex(m_subTracks, m_nDimensions, KeyCount(m_subTracks, 0)) =
           [i |-> 2, key |-> 0]

\* the keys of the smallest time later than the time of flat key f
NextCandidates(st, f) ==
    LET T == TimeOfSlot(st, SlotOfFlat(st, f))
        later == {slot \in KeySlots(st) : TimeOfSlot(st, slot) > T}
    IN  {slot \in later : \A other \in later : TimeOfSlot(st, slot) <= TimeOfSlot(st, other)}

\* C18: when several keys share the smallest time later than key f's,
\* NextKeyByTime(f) is the one in the sub-track of lowest index, and there
\* the one of lowest local index
C18_NextKeyTieBreak ==
    \A f \in ValidKeys :
        LET cands == NextCandidates(m_subTracks, f)
        IN  cands # {} =>
                LET first == CHOOSE slot \in cands : \A other \in cands :
                                 \/ slot[1] < other[1]
                                 \/ (slot[1] = other[1] /\ slot[2] <= other[2])
                IN  NextKeyByTime(m_subTracks, m_nDimensions, f) = FlatOf(m_subTracks, first)

\* sub-track 0 holds two keys of the next time and sub-track 1 holds one more
C18_Witness ==
    \E f \in ValidKeys :
        LET cands == NextCandidates(m_subTracks, f)
        IN  /\ Cardinality({slot \in cands : slot[1] = 0}) >= 2
            /\ \E slot \in cands : slot[1] = 1
            /\ NextKeyByTime(m_subTracks, m_nDimensions, f) =
                   FlatOf(m_subTracks, CHOOSE slot \in cands : slot[1] = 0 /\
                       \A other \in cands : other[1] = 0 => slot[2] <= other[2])
\* C19: for a target in (-181, 181) and a previous angle of whole degrees the
\* result of PreferShortestRotPath differs from the target by a whole number
\* of turns of 360 degrees
C19_ResultIsTargetModulo360 ==
    (op.name = "PreferShortestRotPath" /\ -181 < op.degree /\ op.degree < 181) =>
        \E m \in (-3)..3 : op.result = op.degree + 360 * m

\* previous 380 and target -170: the alternate wrap 190 and one turn, 550
C19_Witness ==
    /\ op.name = "PreferShortestRotPath"
    /\ op.degree0 = 380
    /\ op.degree = -170
    /\ op.result = op.degree + 720
C16_QuatHasThreeDims ==
    m_valueType = "Quat" => m_nDimensions = 3

\* C20: SetValue with a quaternion on a 3-dimensional track writes to each
\* axis i the Euler degree itself when isDefaultKey is true (as the default
\* value), and otherwise PreferShortestRotPath of that degree and of the value
\* sub-track i evaluated to at that time before the call
C20_QuatWritePerAxis ==
    (op.name = "SetValueQuat" /\ m_nDimensions = 3) =>
        \A i \in 0..2 :
            LET degree == GetAnglesXYZ(op.value)[i]
            IN  IF op.bDefault
                THEN /\ m_subTracks[i].def = degree
                     /\ m_subTracks[i].keys = op.pre[i].keys
                ELSE /\ \E m \in 1..Len(m_subTracks[i].keys) :
                           /\ m_subTracks[i].keys[m].time = op.time
                           /\ m_subTracks[i].keys[m].value =
                                  PreferShortestRotPath(degree, SubGetValue(op.pre[i], op.time))
                     /\ m_subTracks[i].def = op.pre[i].def

\* the axes had different values before, and on one axis the wrapped angle
\* was written
C20_Witness ==
    /\ op.name = "SetValueQuat" /\ ~op.bDefault /\ m_nDimensions = 3
    /\ SubGetValue(op.pre[0], op.time) # SubGetValue(op.pre[2], op.time)
    /\ \E i \in 0..2 :
          /\ SubGetValue(m_subTracks[i], op.time) # GetAnglesXYZ(op.value)[i]
          /\ SubGetValue(op.pre[i], op.time) # SubGetValue(op.pre[0], op.time)
VecSub(a, b) == [j \in 0..2 |-> a[j] - b[j]]

\* the times at which each of sub-tracks 0..2 holds a key
CommonKeyTimes(st) ==
    {t \in KeyTimes(st) : \A i \in 0..2 : \E m \in 1..Len(st[i].keys) : st[i].keys[m].time = t}

\* C21: after a rebase of a 3-dimensional Position, Rotation or Scale track
\* each of the three sub-tracks holds a key at every time that was a key time
\* of any of them, every key that existed is still there at its time, and
\* every distinct key time is visited once
C21_RebaseKeysAtAllTimes ==
    (op.name = "ParentChanged" /\ m_nDimensions = 3
        /\ m_nParamType \in {"Position", "Rotation", "Scale"}) =>
        LET allTimes == CollectTimes(op.pre, 0, 0, <<>>)
            KeysAt(st, i, t) == {m \in 1..Len(st[i].keys) : st[i].keys[m].time = t}
        IN  /\ {allTimes[j] : j \in 1..Len(allTimes)} = KeyTimes(op.pre)
            /\ \A j \in 1..Len(allTimes) : \A h \in 1..Len(allTimes) :
                  allTimes[j] = allTimes[h] => j = h
            /\ KeyTimes(m_subTracks) = KeyTimes(op.pre)
            /\ \A i \in 0..2 : \A t \in KeyTimes(op.pre) :
                  /\ KeysAt(m_subTracks, i, t) # {}
                  /\ Cardinality(KeysAt(m_subTracks, i, t)) >=
                         Cardinality(KeysAt(op.pre, i, t))
                  /\ Cardinality(KeysAt(m_subTracks, i, t)) <=
                         Cardinality(KeysAt(op.pre, i, t)) + 1

\* a time keyed in sub-track 0 only gets its keys in sub-tracks 1 and 2
C21_Witness ==
    /\ op.name = "ParentChanged" /\ m_nDimensions = 3
    /\ m_nParamType \in {"Position", "Rotation", "Scale"}
    /\ \E t \in KeyTimes(op.pre) :
          /\ \E m \in 1..Len(op.pre[0].keys) : op.pre[0].keys[m].time = t
          /\ \A m \in 1..Len(op.pre[1].keys) : op.pre[1].keys[m].time # t
          /\ \E m \in 1..Len(m_subTracks[1].keys) : m_subTracks[1].keys[m].time = t

\* C22: a rebase of a 3-dimensional Rotation track stores, at a time keyed in
\* all three sub-tracks, eulerDegrees(oldParent) + local - eulerDegrees(newParent)
C22_RotationRebaseSubtractsNewParent ==
    (op.name = "there" /\ m_nParamType = "Rotation" /\ m_nDimensions = 3) =>
        \A t \in CommonKeyTimes(op.pre) :
            GetVector(m_subTracks, t) =
                VecSub(VecAdd(ConvertTransformToEulerDegrees(op.A), GetVector(op.pre, t)),
                       ConvertTransformToEulerDegrees(op.B))

\* C24: RemoveKey(f) with 0 <= f < GetNumKeys() removes the key at local index
\* l of sub-track s, (s, l) the translation of f: GetNumKeys() goes down by
\* one, the other sub-tracks keep their keys, a key at a flat index g > f is
\* afterwards at g - 1 and a key at g < f stays at g
C24_RemoveKeyRemovesOne ==
    (op.name = "RemoveKey" /\ op.key \in 0..(GetNumKeys(op.pre, m_nDimensions) - 1)) =>
        LET f == op.key
            slot == SlotOfFlat(op.pre, f)
            KeyAt(st, g) == LET sl == SlotOfFlat(st, g) IN <<sl[1], st[sl[1]].keys[sl[2]]>>
        IN  /\ ~op.wild
            /\ op.sub = slot[1] /\ op.local = slot[2] - 1
            /\ GetNumKeys(m_subTracks, m_nDimensions) =
                   GetNumKeys(op.pre, m_nDimensions) - 1
            /\ \A i \in 0..(MAX_SUBTRACKS - 1) : i # op.sub => m_subTracks[i] = op.pre[i]
            /\ \A g \in 0..(GetNumKeys(op.pre, m_nDimensions) - 1) :
                  /\ g > f => KeyAt(m_subTracks, g - 1) = KeyAt(op.pre, g)
                  /\ g < f => KeyAt(m_subTracks, g) = KeyAt(op.pre, g)

\* the first key of sub-track 1 is removed; keys of sub-tracks 0 and 2 lie
\* before and after it
C24_Witness ==
    /\ op.name = "RemoveKey"
    /\ ~op.wild
    /\ op.sub = 1 /\ op.local = 0
    /\ op.key >= 1
    /\ KeyCount(op.pre, 2) >= 1
    /\ KeyCount(m_subTracks, 1) = KeyCount(op.pre, 1) - 1
    /\ KeyCount(m_subTracks, 2) = KeyCount(op.pre, 2)

\* C25: with a flat index f >= GetNumKeys() GetSubTrackIndex returns -1 and
\* leaves the index as it was; RemoveKey, SetKeyTime and SelectKey change no
\* key of any sub-track, GetKeyTime returns 0 and IsKeySelected returns false
C25_IndexPastEndIsRejected ==
    (op.name \in {"RemoveKey", "SetKeyTime", "SelectKey", "GetKeyTime", "IsKeySelected"}
        /\ "sub" \in DOMAIN op
        /\ op.key >= GetNumKeys(op.pre, m_nDimensions)) =>
        /\ ~op.wild
        /\ op.sub = -1
        /\ op.local = op.key
        /\ m_subTracks = op.pre
        /\ ~crashed
        /\ op.name = "GetKeyTime" => op.result = 0
        /\ op.name = "IsKeySelected" => op.result = FALSE

\* SetKeyTime to time 0 with the index one past the last key of a track whose
\* last key is not at time 0
C25_Witness ==
    /\ op.name = "SetKeyTime"
    /\ "sub" \in DOMAIN op
    /\ GetNumKeys(op.pre, m_nDimensions) >= 2
    /\ op.key = GetNumKeys(op.pre, m_nDimensions)
    /\ op.result = 0
    /\ \E i \in Active : \E m \in 1..KeyCount(op.pre, i) : op.pre[i].keys[m].time # 0
    /\ m_subTracks = op.pre

\* C26: after SelectKey(f, b) IsKeySelected(f) equals b, also when the owning
\* sub-track holds an earlier key less than timeEpsilon away from key f
C26_SelectThenIsSelected ==
    op.name = "SelectKey" =>
        IsKeySelected(m_subTracks, m_nDimensions, op.key) = op.select

\* C27: for a target in [-180, 180] and a previous angle equal to it modulo
\* 360 PreferShortestRotPath(target, previous) is previous, so setting the
\* same rotation again at the same time stores the angle already stored
C27_EquivalentAngleIsFixedPoint ==
    /\ (op.name \in {"PreferShortestRotPath", "Rewrite"}
           /\ (op.degree0 - op.degree) % 360 = 0) => op.result = op.degree0
    /\ op.name = "Rewrite" => op.result = op.degree0

\* the first write took -10 to 350 next to 370; the second write finds 350
C27_Witness ==
    /\ op.name = "Rewrite"
    /\ op.degree = -10
    /\ op.degree0 = 350
    /\ op.result = 350

\* does repeated NextKeyByTime from flat key f give -1 within the given
\* number of calls
RECURSIVE ReachesEnd(_, _, _, _)
ReachesEnd(st, nd, f, calls) ==
    IF calls = 0 THEN FALSE
    ELSE LET g == NextKeyByTime(st, nd, f)
         IN  g = -1 \/ ReachesEnd(st, nd, g, calls - 1)

\* C28: if NextKeyByTime(f) is g and g is not -1 then g is a valid flat index
\* and GetKeyTime(g) is later than GetKeyTime(f); applied again and again from
\* a valid key it gives -1 within GetNumKeys() calls
C28_NextKeyAdvancesAndEnds ==
    \A f \in ValidKeys :
        LET g == NextKeyByTime(m_subTracks, m_nDimensions, f)
        IN  /\ g # -1 =>
                  /\ g \in ValidKeys
                  /\ GetKeyTime(m_subTracks, m_nDimensions, g) >
                         GetKeyTime(m_subTracks, m_nDimensions, f)
            /\ ReachesEnd(m_subTracks, m_nDimensions, f,
                          GetNumKeys(m_subTracks, m_nDimensions))

\* a walk of two steps that changes sub-track and then ends
C28_Witness ==
    \E f \in ValidKeys :
        LET g == NextKeyByTime(m_subTracks, m_nDimensions, f)
            h == NextKeyByTime(m_subTracks, m_nDimensions, g)
        IN  /\ g # -1
            /\ h # -1
            /\ NextKeyByTime(m_subTracks, m_nDimensions, h) = -1
            /\ GetSubTrackIndex(m_subTracks, m_nDimensions, f).i #
                   GetSubTrackIndex(m_subTracks, m_nDimensions, g).i

\* piece i of a description for time T: the description of the first key of
\* sub-track i at exactly T, the display name of sub-track i if it has none
PieceOf(st, names, i, T) ==
    LET at == FindKeyAt(st[i].keys, T)
    IN  IF at # 0 THEN FormatFloat2(st[i].keys[at].value) ELSE names[i]

\* pieces 0..i in sub-track order with a comma between them
RECURSIVE JoinedPieces(_, _, _, _)
JoinedPieces(st, names, i, T) ==
    IF i = 0 THEN PieceOf(st, names, 0, T)
    ELSE JoinedPieces(st, names, i - 1, T) \o <<",">> \o PieceOf(st, names, i, T)

GetKeyInfoReturned == op.name = "GetKeyInfo" /\ op.returned /\ op.key \in ValidKeys

\* C23 as stated: GetKeyInfo(f), T the time of key f, returns the
\* dimensionCount pieces joined by the separator, piece i the description of
\* the first key of sub-track i whose time is exactly T and else the display
\* name of sub-track i; the duration is 0
C23_DescriptionIsJoinedPieces ==
    GetKeyInfoReturned =>
        /\ op.description =
               JoinedPieces(m_subTracks, m_subTrackNames, m_nDimensions - 1,
                            TimeOfSlot(m_subTracks, SlotOfFlat(m_subTracks, op.key)))
        /\ op.duration = 0

\* C23 amended: the description is the first STR_SIZE - 1 characters of the
\* joined pieces, all of them when they are at most that many; the duration
\* is 0
C23_DescriptionIsJoinedPiecesCut ==
    GetKeyInfoReturned =>
        LET joined == JoinedPieces(m_subTracks, m_subTrackNames, m_nDimensions - 1,
                                   TimeOfSlot(m_subTracks, SlotOfFlat(m_subTracks, op.key)))
        IN  /\ op.description = SubSeq(joined, 1, Min(Len(joined), STR_SIZE - 1))
            /\ op.duration = 0

\* key 0 of sub-track 0 is at time 0, the only key of sub-track 1 at time 1,
\* less than timeEpsilon away: the second piece is the name
C23_Witness ==
    /\ GetKeyInfoReturned
    /\ m_nDimensions = 2
    /\ op.key = 0
    /\ KeyCount(m_subTracks, 0) >= 1
    /\ m_subTracks[0].keys[1].time = 0
    /\ KeyCount(m_subTracks, 1) = 1
    /\ m_subTracks[1].keys[1].time = 1
    /\ op.description = <<"1", ".", "0", "0", ",", "Y">>

\* C29: no operation reads a sub-track slot at or past the dimension count,
\* GetKeyInfo on a default-constructed track of 0 dimensions and a parent
\* rebase on a track of fewer than 3 dimensions included
C29_NoSlotPastDimensions ==
    op.name \in {"GetKeyInfo", "ParentChanged"} => ~crashed

\* C30: the text a GetKeyInfo caller received is still what its description
\* designates after the next GetKeyInfo call
C30_DescriptionKeepsContent ==
    (op.name = "GetKeyInfo" /\ op.returned /\ op.again) => str = op.earlier

====
